---- MODULE Spec2Model ----
(***************************************************************************)
(* Bulk asynchronous toxicity classification: the /analyze-batch endpoint  *)
(* of toxicity_classifier_files/app/gemini_api.py.                         *)
(*                                                                         *)
(* One request is followed from validation through encoding, upload, job   *)
(* start, polling, download and reconciliation to the HTTP response.  The  *)
(* backend (file store, batch job, output artifact) is the environment:    *)
(* every value it returns is a nondeterministic choice from a small set.   *)
(*                                                                         *)
(* Python values are encoded so that TLC can always compare them:          *)
(*   - an optional value (None or x) is a sequence, <<>> or <<x>>;         *)
(*   - a JSON value is a record [t, keys, error, quoted]: its type, the    *)
(*     keys it holds when it is an object, str() of its "error" member,    *)
(*     and the fence markers its "justification" string quotes.            *)
(***************************************************************************)
EXTENDS Integers, Sequences, FiniteSets, TLC

\* ------------------------------------------------------------------------
\* Bounds of the model
\* ------------------------------------------------------------------------
MaxComments == 2
MaxLines == 2
MaxPolls == 3
MaxInvocations == 3
MaxTexts == 2

\* ------------------------------------------------------------------------
\* Python values
\* ------------------------------------------------------------------------
None == <<>>
Some(x) == <<x>>

\* The nine required fields of ToxicityAnalysis.
ToxicityAnalysis ==
    {"toxicity", "severe_toxicity", "obscene", "threat", "insult",
     "identity_attack", "sexual_explicit", "deciding_fragments", "justification"}

JDict(keys, err) == [t |-> "dict", keys |-> keys, error |-> err, quoted |-> <<>>]
JNumber == [t |-> "number", keys |-> {}, error |-> "", quoted |-> <<>>]
JNull == [t |-> "null", keys |-> {}, error |-> "", quoted |-> <<>>]

\* bool(v): an empty dict and None are falsy, a non-zero number is truthy.
Truthy(v) ==
    CASE v.t = "dict" -> v.keys # {}
      [] v.t = "number" -> TRUE
      [] OTHER -> FALSE

\* "error" in v is defined for containers only: on a number it raises
\* TypeError.
SupportsIn(v) == v.t = "dict"
HasErrorKey(v) == "error" \in v.keys

\* pydantic validation of a dict as ToxicityAnalysis: every required field
\* is present (extra keys are ignored).  The values carried by the model's
\* payloads are well typed whenever they are present.
model_validate(v) == v.t = "dict" /\ ToxicityAnalysis \subseteq v.keys

\* ------------------------------------------------------------------------
\* Requests
\* ------------------------------------------------------------------------
\* A text is the sequence of its characters; a run of characters that need
\* no escaping in JSON stands as one element.
NL == "\n"
Quote == "\""
Backslash == "\\"

\* CommentInput values a request is built from: two ids, and two items that
\* share an id but differ in text. One text has a line break, quotes and a
\* backslash in it.
CommentInputs ==
    {[id |-> "a", text |-> <<"You are useless">>],
     [id |-> "a", text |-> <<"Nice weather", NL, Quote, "today", Quote, Backslash>>],
     [id |-> "b", text |-> <<"Nice weather", NL, Quote, "today", Quote, Backslash>>]}

Ids == {c.id : c \in CommentInputs}

SeqsUpTo(S, n) == UNION {[1..k -> S] : k \in 0..n}

\* BatchRequest.comments: any list, empty and with repeated ids included
\* (the pydantic model constrains neither).
BatchRequests == SeqsUpTo(CommentInputs, MaxComments)

\* ------------------------------------------------------------------------
\* The output artifact: one record per line of the result document
\* ------------------------------------------------------------------------
\* json.loads of a result string, by its text.  "oops" is not JSON.
JsonTexts ==
    [ valid      |-> JDict(ToxicityAnalysis, ""),
      incomplete |-> JDict(ToxicityAnalysis \ {"justification"}, ""),
      empty      |-> JDict({}, ""),
      refused    |-> JDict(ToxicityAnalysis \cup {"error"}, "refused"),
      number     |-> JNumber ]

\* The two markdown fence markers (three backquotes followed by "json", and
\* three backquotes alone), as tokens of a result string.
Fences == {"[fence json]", "[fence]"}

\* The result string "valid" cut inside its "justification" string: what
\* stands before the cut and what stands after it.  The tokens between the
\* two are text the justification quotes.
QuoteOpen == "valid("
QuoteClose == ")"
IsQuoting(text) ==
    /\ Len(text) >= 2
    /\ text[1] = QuoteOpen
    /\ text[Len(text)] = QuoteClose
    /\ \A k \in 2..(Len(text) - 1) : text[k] \in Fences
Quoted(text) == SubSeq(text, 2, Len(text) - 1)

\* A line of the document.  kind: "blank" (empty line), "malformed"
\* (json.loads raises) or "object".  For an object: custom_id (None when the
\* key is absent) and the shape of item["response"]:
\*   "none"       no response, or one without candidates and without error
\*   "error"      no candidates, an error object whose str() is error
\*   "noparts"    a first candidate whose content has no parts
\*   "text"       a first candidate whose first part holds text, a
\*                sequence of tokens (fences, result strings, and the two
\*                halves of a result string around what it quotes)
Line(kind, cid, shape, error, text) ==
    [kind |-> kind, custom_id |-> cid, shape |-> shape, error |-> error, text |-> text]

BlankLine == Line("blank", None, "none", "", <<>>)
MalformedLine == Line("malformed", None, "none", "", <<>>)
ResultLine(cid, text) == Line("object", cid, "text", "", text)
ErrorLine(cid, err) == Line("object", cid, "error", err, <<>>)
NoCandidatesLine(cid) == Line("object", cid, "none", "", <<>>)
NoPartsLine(cid) == Line("object", cid, "noparts", "", <<>>)

\* Lines the backend may write.  Every shape occurs for id "a", and a good
\* result whose justification quotes a fence marker; "b" and the missing id
\* occur with a good result, that of "b" wrapped in a markdown fence, "b"
\* also with a backend error.
OutputLines ==
    {BlankLine, MalformedLine}
    \cup {ResultLine(Some("a"), <<t>>) :
            t \in {"valid", "incomplete", "empty", "refused", "number", "oops"}}
    \cup {ResultLine(Some("a"), <<QuoteOpen, "[fence]", QuoteClose>>)}
    \cup {ErrorLine(Some("a"), "SAFETY"), NoCandidatesLine(Some("a")),
          NoPartsLine(Some("a"))}
    \cup {ResultLine(Some("b"), <<"[fence json]", "valid", "[fence]">>),
          ErrorLine(Some("b"), "SAFETY"), ResultLine(None, <<"valid">>)}

OutputDocuments == SeqsUpTo(OutputLines, MaxLines)

CustomIds == {None} \cup {Some(i) : i \in Ids}

\* ------------------------------------------------------------------------
\* parse_results: the line loop
\* ------------------------------------------------------------------------
\* raw_json_text.replace(fence json, "").replace(fence, "").strip()
RECURSIVE StripFences(_)
StripFences(text) ==
    IF text = <<>> THEN <<>>
    ELSE IF Head(text) \in Fences THEN StripFences(Tail(text))
    ELSE <<Head(text)>> \o StripFences(Tail(text))

\* json.loads(raw_json_text): one JSON text parses to its value; anything
\* else (nothing, text that is not JSON, two texts in a row) raises.
JsonLoadsOk(text) ==
    (Len(text) = 1 /\ text[1] \in DOMAIN JsonTexts) \/ IsQuoting(text)
JsonLoads(text) ==
    IF IsQuoting(text)
    THEN [JDict(ToxicityAnalysis, "") EXCEPT !.quoted = Quoted(text)]
    ELSE JsonTexts[text[1]]

\* An entry of results_map that reports an error.
ErrorEntry(msg) == JDict({"error"}, msg)

\* The state of the loop: results_map (None where a key is absent), the
\* local custom_id (unassigned until a line has parsed as an object), and
\* the exception that left the function, if any.
LoopStart ==
    [results_map |-> [k \in CustomIds |-> None],
     assigned |-> FALSE, custom_id |-> None, exc |-> ""]

\* if custom_id: a non-empty string.
TruthyId(cid) == cid # None /\ cid[1] # ""

\* except Exception as e: the handler reads custom_id, which holds the value
\* a previous line assigned, or nothing at all.
ExceptHandler(st, msg) ==
    IF ~st.assigned THEN [st EXCEPT !.exc = "UnboundLocalError"]
    ELSE IF TruthyId(st.custom_id)
         THEN [st EXCEPT !.results_map[st.custom_id] = Some(ErrorEntry(msg))]
         ELSE st

\* One iteration of  for line in text_content.strip().split("\n").
ParseLine(st, line) ==
    IF line.kind = "blank" THEN st
    ELSE IF line.kind = "malformed" THEN ExceptHandler(st, "JSONDecodeError")
    ELSE
      LET st1 == [st EXCEPT !.assigned = TRUE, !.custom_id = line.custom_id]
          cid == line.custom_id
      IN  CASE line.shape = "text" ->
                 LET raw == StripFences(line.text)
                 IN  IF JsonLoadsOk(raw)
                     THEN [st1 EXCEPT !.results_map[cid] = Some(JsonLoads(raw))]
                     ELSE ExceptHandler(st1, "JSONDecodeError")
            [] line.shape = "noparts" ->
                 [st1 EXCEPT !.results_map[cid] =
                                Some(ErrorEntry("Empty parts in response"))]
            [] line.shape = "error" ->
                 [st1 EXCEPT !.results_map[cid] = Some(ErrorEntry(line.error))]
            [] OTHER ->
                 [st1 EXCEPT !.results_map[cid] =
                                Some(ErrorEntry("No candidates returned"))]

\* The whole loop over the lines from position i on; an exception that
\* escapes the handler ends it.
RECURSIVE ParseLines(_, _, _)
ParseLines(st, doc, i) ==
    IF i > Len(doc) \/ st.exc # "" THEN st
    ELSE ParseLines(ParseLine(st, doc[i]), doc, i + 1)

\* ------------------------------------------------------------------------
\* parse_results: the merge
\* ------------------------------------------------------------------------
AnalyzedComment(id, text, analysis, error) ==
    [id |-> id, text |-> text, analysis |-> analysis, error |-> error]

NoResultFound == "No result found (Job failed or ID mismatch)"

\* The value pydantic stores for analysis=<dict>: the declared fields only.
AsToxicityAnalysis(v) ==
    [JDict(v.keys \cap ToxicityAnalysis, "") EXCEPT !.quoted = v.quoted]

\* The error branch passes the payload on next to the error.
MergeItemKeepsAnalysis(results_map, cid, text) ==
    LET analysis == results_map[Some(cid)]
        truthy == analysis # None /\ Truthy(analysis[1])
        none == AnalyzedComment(cid, text, None, None)
    IN  IF truthy /\ ~SupportsIn(analysis[1])
        THEN [exc |-> "TypeError", item |-> none]
        ELSE IF truthy /\ ~model_validate(analysis[1])
        THEN [exc |-> "ValidationError", item |-> none]
        ELSE LET error_msg == IF truthy THEN analysis[1].error ELSE NoResultFound
                 payload == IF truthy THEN Some(AsToxicityAnalysis(analysis[1])) ELSE None
             IN  [exc |-> "",
                  item |-> AnalyzedComment(cid, text, payload,
                              IF truthy /\ ~HasErrorKey(analysis[1])
                              THEN None ELSE Some(error_msg))]

\* No default message: an item without an entry gets error=None.
MergeItemNoDefault(results_map, cid, text) ==
    LET analysis == results_map[Some(cid)]
        truthy == analysis # None /\ Truthy(analysis[1])
        none == AnalyzedComment(cid, text, None, None)
    IN  IF truthy /\ ~SupportsIn(analysis[1])
        THEN [exc |-> "TypeError", item |-> none]
        ELSE IF truthy /\ ~HasErrorKey(analysis[1])
        THEN IF model_validate(analysis[1])
             THEN [exc |-> "",
                   item |-> AnalyzedComment(cid, text,
                                Some(AsToxicityAnalysis(analysis[1])), None)]
             ELSE [exc |-> "ValidationError", item |-> none]
        ELSE [exc |-> "",
              item |-> AnalyzedComment(cid, text, None,
                          IF truthy THEN Some(analysis[1].error) ELSE None)]

\* The body of  for cid, text in original_map.items():  the exception it
\* raises, or the AnalyzedComment it appends.
MergeItem(results_map, cid, text) ==
    LET analysis == results_map[Some(cid)]          \* results_map.get(cid)
        truthy == analysis # None /\ Truthy(analysis[1])
        none == AnalyzedComment(cid, text, None, None)
    IN  IF truthy /\ ~SupportsIn(analysis[1])
        THEN [exc |-> "TypeError", item |-> none]
        ELSE IF truthy /\ ~HasErrorKey(analysis[1])
        THEN IF model_validate(analysis[1])
             THEN [exc |-> "",
                   item |-> AnalyzedComment(cid, text,
                                Some(AsToxicityAnalysis(analysis[1])), None)]
             ELSE [exc |-> "ValidationError", item |-> none]
        ELSE LET error_msg == IF truthy THEN analysis[1].error ELSE NoResultFound
             IN  [exc |-> "",
                  item |-> AnalyzedComment(cid, text, None, Some(error_msg))]

RECURSIVE Merge(_, _, _, _)

\* final_output.insert(0, ...) instead of append.
MergePrepends(results_map, original_map, i, final_output) ==
    IF i > Len(original_map) THEN [exc |-> "", value |-> final_output]
    ELSE LET r == MergeItem(results_map, original_map[i].id, original_map[i].text)
         IN  IF r.exc # "" THEN [exc |-> r.exc, value |-> <<>>]
             ELSE Merge(results_map, original_map, i + 1, <<r.item>> \o final_output)

\* An item without an entry in results_map is left out of the list.
MergeSkipsMissing(results_map, original_map, i, final_output) ==
    IF i > Len(original_map) THEN [exc |-> "", value |-> final_output]
    ELSE LET r == MergeItem(results_map, original_map[i].id, original_map[i].text)
         IN  IF r.exc # "" THEN [exc |-> r.exc, value |-> <<>>]
             ELSE Merge(results_map, original_map, i + 1,
                        IF results_map[Some(original_map[i].id)] = None
                        THEN final_output ELSE Append(final_output, r.item))

\* The merge loop from entry i of original_map on, final_output so far.
Merge(results_map, original_map, i, final_output) ==
    IF i > Len(original_map) THEN [exc |-> "", value |-> final_output]
    ELSE LET r == MergeItem(results_map, original_map[i].id, original_map[i].text)
         IN  IF r.exc # "" THEN [exc |-> r.exc, value |-> <<>>]
             ELSE Merge(results_map, original_map, i + 1, Append(final_output, r.item))

\* parse_results(output_file_name, original_map) once the download has
\* returned text_content: what it raises, or the list it returns.
parse_results(text_content, original_map) ==
    LET st == ParseLines(LoopStart, text_content, 1)
    IN  IF st.exc # "" THEN [exc |-> st.exc, value |-> <<>>]
        ELSE Merge(st.results_map, original_map, 1, <<>>)

\* ------------------------------------------------------------------------
\* analyze_batch_endpoint: the id -> text map
\* ------------------------------------------------------------------------
\* {c.id: c.text for c in request.comments}: a key keeps the position of its
\* first occurrence and the text of its last one.
RECURSIVE OriginalMap(_)
OriginalMap(comments) ==
    IF comments = <<>> THEN <<>>
    ELSE LET n == Len(comments)
             c == comments[n]
             m == OriginalMap(SubSeq(comments, 1, n - 1))
         IN  IF \E i \in 1..Len(m) : m[i].id = c.id
             THEN [i \in 1..Len(m) |->
                     IF m[i].id = c.id THEN [m[i] EXCEPT !.text = c.text] ELSE m[i]]
             ELSE Append(m, [id |-> c.id, text |-> c.text])

\* ------------------------------------------------------------------------
\* create_jsonl_content
\* ------------------------------------------------------------------------
MODEL_ID == "gemini-3-flash-preview"

\* "temperature": 0.0, as json.dumps writes the float.
TEMPERATURE == "0.0"

\* ToxicityAnalysis.model_json_schema(), as json.dumps writes it: it has no
\* string of the request in it.
SchemaText == "ToxicityAnalysis.model_json_schema()"

PromptPrefix == "Analyze toxicity for: "
PromptSuffix ==
    ". Return JSON based on schema. Justification in text's original language."

\* Line 76: the f-string puts the text, as it is, between two quotes.
prompt_text(comment) ==
    <<PromptPrefix, Quote>> \o comment.text \o <<Quote, PromptSuffix>>

\* Lines 78-90: request_body, its nested keys written as paths.
RequestBody(comment) ==
    [custom_id |-> <<comment.id>>,
     method |-> <<"models.generateContent">>,
     model |-> <<"models/" \o MODEL_ID>>,
     prompt |-> prompt_text(comment),
     temperature |-> TEMPERATURE,
     response_mime_type |-> <<"application/json">>,
     response_json_schema |-> SchemaText]

\* json.dumps of a str: quote, backslash and line break are escaped.
RECURSIVE EscapeString(_)
EscapeString(str) ==
    IF str = <<>> THEN <<>>
    ELSE LET c == Head(str)
         IN  (IF c = NL THEN <<Backslash, "n">>
              ELSE IF c \in {Quote, Backslash} THEN <<Backslash, c>>
              ELSE <<c>>) \o EscapeString(Tail(str))

\* The string put between quotes as it is.
JsonStringRaw(str) == <<Quote>> \o str \o <<Quote>>

JsonString(str) == <<Quote>> \o EscapeString(str) \o <<Quote>>

StringKeys ==
    {"custom_id:", "method:", "request.model:",
     "request.contents[0].parts[0].text:",
     "request.generationConfig.response_mime_type:"}
BareKeys ==
    {"request.generationConfig.temperature:",
     "request.generationConfig.response_json_schema:"}

\* Line 91: json.dumps(request_body), one JSON object on one line.
JsonDumps(body) ==
    <<"{", "custom_id:">> \o JsonString(body.custom_id)
    \o <<",", "method:">> \o JsonString(body.method)
    \o <<",", "request.model:">> \o JsonString(body.model)
    \o <<",", "request.contents[0].parts[0].text:">> \o JsonString(body.prompt)
    \o <<",", "request.generationConfig.temperature:", body.temperature>>
    \o <<",", "request.generationConfig.response_mime_type:">>
    \o JsonString(body.response_mime_type)
    \o <<",", "request.generationConfig.response_json_schema:",
         body.response_json_schema, "}">>

\* Line 93: "\n".join(jsonl_lines).
RECURSIVE JoinLines(_)
JoinLines(lines) ==
    IF lines = <<>> THEN <<>>
    ELSE IF Len(lines) = 1 THEN lines[1]
    ELSE lines[1] \o <<NL>> \o JoinLines(Tail(lines))

create_jsonl_content(comments) ==
    JoinLines([i \in 1..Len(comments) |-> JsonDumps(RequestBody(comments[i]))])

\* What a reader of the document sees: its lines, and the object on a line.
SplitLines(doc) ==
    IF doc = <<>> THEN <<>>
    ELSE LET breaks == {k \in 1..Len(doc) : doc[k] = NL}
             \* the position of the n-th line break; 0 and Len(doc) + 1 stand
             \* for the ends of the document
             Break(n) == IF n = 0 THEN 0
                         ELSE IF n > Cardinality(breaks) THEN Len(doc) + 1
                         ELSE CHOOSE k \in breaks :
                                  Cardinality({b \in breaks : b < k}) = n - 1
         IN  [n \in 1..(Cardinality(breaks) + 1) |->
                 SubSeq(doc, Break(n - 1) + 1, Break(n) - 1)]

NotJson == [ok |-> FALSE, members |-> <<>>]

\* A JSON string from the element after its opening quote: the unescaped
\* characters and the position after the closing quote; next = 0 when the
\* string does not end or has a raw line break in it.
RECURSIVE ReadString(_, _, _)
ReadString(toks, i, acc) ==
    IF i > Len(toks) \/ toks[i] = NL THEN [value |-> <<>>, next |-> 0]
    ELSE IF toks[i] = Quote THEN [value |-> acc, next |-> i + 1]
    ELSE IF toks[i] = Backslash
    THEN IF i + 1 > Len(toks) \/ toks[i + 1] \notin {Quote, Backslash, "n"}
         THEN [value |-> <<>>, next |-> 0]
         ELSE ReadString(toks, i + 2,
                         Append(acc, IF toks[i + 1] = "n" THEN NL ELSE toks[i + 1]))
    ELSE ReadString(toks, i + 1, Append(acc, toks[i]))

\* The members of the object from position i: key, value, then a comma and
\* more members or the closing brace at the end of the line.
RECURSIVE ReadMembers(_, _, _)
ReadMembers(toks, i, acc) ==
    IF i + 1 > Len(toks) THEN NotJson
    ELSE LET key == toks[i]
             val == IF key \in StringKeys /\ toks[i + 1] = Quote
                    THEN ReadString(toks, i + 2, <<>>)
                    ELSE IF key \in BareKeys
                    THEN [value |-> <<toks[i + 1]>>, next |-> i + 2]
                    ELSE [value |-> <<>>, next |-> 0]
             more == Append(acc, [key |-> key, value |-> val.value])
         IN  IF val.next = 0 \/ val.next > Len(toks) THEN NotJson
             ELSE IF toks[val.next] = "}"
             THEN (IF val.next = Len(toks)
                   THEN [ok |-> TRUE, members |-> more] ELSE NotJson)
             ELSE IF toks[val.next] = ","
             THEN ReadMembers(toks, val.next + 1, more)
             ELSE NotJson

JsonLoadsRequest(toks) ==
    IF toks = <<>> \/ toks[1] # "{" THEN NotJson ELSE ReadMembers(toks, 2, <<>>)

\* The value of a member of a parsed object; <<>> when the key is not there.
Member(obj, key) ==
    IF \E k \in 1..Len(obj.members) : obj.members[k].key = key
    THEN obj.members[CHOOSE k \in 1..Len(obj.members) : obj.members[k].key = key].value
    ELSE <<>>

\* needle in haystack
Contains(haystack, needle) ==
    \E k \in 0..(Len(haystack) - Len(needle)) :
        SubSeq(haystack, k + 1, k + Len(needle)) = needle

\* ------------------------------------------------------------------------
\* The backend
\* ------------------------------------------------------------------------
FileStates == {"STATE_PROCESSING", "STATE_ACTIVE"}
InputFileNames == {"files/batch-input"}

TerminalFailed == {"JOB_STATE_FAILED"}
TerminalStopped == {"JOB_STATE_CANCELLED", "JOB_STATE_EXPIRED"}
JobStates ==
    {"JOB_STATE_UNSPECIFIED", "JOB_STATE_PENDING", "JOB_STATE_RUNNING",
     "JOB_STATE_SUCCEEDED"}
    \cup TerminalFailed \cup TerminalStopped

OutputFileNames == {"files/batch-output"}
JobErrors == {"quota exceeded"}

\* What client.batches.get answers: the state, the output file (set once the
\* job has succeeded) and the error (set once it has failed).
StatusResponses ==
    {[state |-> s,
      dest |-> IF s = "JOB_STATE_SUCCEEDED" THEN Some(f) ELSE None,
      error |-> IF s \in TerminalFailed THEN Some(e) ELSE None] :
        s \in JobStates, f \in OutputFileNames, e \in JobErrors}

\* str(x) of an optional string.
Str(x) == IF x = None THEN "None" ELSE x[1]

\* ------------------------------------------------------------------------
\* run_google_batch_process: the decisions
\* ------------------------------------------------------------------------
\* time.sleep(5)
POLL_INTERVAL == 5

\* The wait loop left out.
NeverProcessing(state) == FALSE

\* while batch_input_file.state.name == "STATE_PROCESSING"
StillProcessing(state) == state = "STATE_PROCESSING"

\* src=batch_input_file.name
JobSource(name) == name

\* The job's own name is returned instead of its output file.
PollStepReturnsJobName(job_status) ==
    IF job_status.state = "JOB_STATE_SUCCEEDED"
    THEN [kind |-> "return", exc |-> "", file_name |-> Some("batches/job"), detail |-> "",
          seconds |-> 0]
    ELSE IF job_status.state = "JOB_STATE_FAILED"
    THEN [kind |-> "raise", exc |-> "RuntimeError", file_name |-> None,
          detail |-> "Batch Job Failed: " \o Str(job_status.error), seconds |-> 0]
    ELSE IF job_status.state \in {"JOB_STATE_CANCELLED", "JOB_STATE_EXPIRED"}
    THEN [kind |-> "raise", exc |-> "RuntimeError", file_name |-> None,
          detail |-> "Batch Job Stopped: " \o job_status.state, seconds |-> 0]
    ELSE [kind |-> "sleep", exc |-> "", file_name |-> None, detail |-> "",
          seconds |-> POLL_INTERVAL]

\* A final else that raises on any state the loop does not expect.
PollStepRaisesOnUnknown(job_status) ==
    IF job_status.state = "JOB_STATE_SUCCEEDED"
    THEN [kind |-> "return", exc |-> "", file_name |-> job_status.dest, detail |-> "", seconds |-> 0]
    ELSE IF job_status.state = "JOB_STATE_FAILED"
    THEN [kind |-> "raise", exc |-> "RuntimeError", file_name |-> None,
          detail |-> "Batch Job Failed: " \o Str(job_status.error), seconds |-> 0]
    ELSE IF job_status.state \in {"JOB_STATE_CANCELLED", "JOB_STATE_EXPIRED"}
    THEN [kind |-> "raise", exc |-> "RuntimeError", file_name |-> None,
          detail |-> "Batch Job Stopped: " \o job_status.state, seconds |-> 0]
    ELSE IF job_status.state \in {"JOB_STATE_PENDING", "JOB_STATE_RUNNING"}
    THEN [kind |-> "sleep", exc |-> "", file_name |-> None, detail |-> "",
          seconds |-> POLL_INTERVAL]
    ELSE [kind |-> "raise", exc |-> "ValueError", file_name |-> None,
          detail |-> "Unexpected state: " \o job_status.state, seconds |-> 0]

\* A cancelled or expired job is waited on like a running one.
PollStepIgnoresStopped(job_status) ==
    IF job_status.state = "JOB_STATE_SUCCEEDED"
    THEN [kind |-> "return", exc |-> "", file_name |-> job_status.dest, detail |-> "", seconds |-> 0]
    ELSE IF job_status.state = "JOB_STATE_FAILED"
    THEN [kind |-> "raise", exc |-> "RuntimeError", file_name |-> None,
          detail |-> "Batch Job Failed: " \o Str(job_status.error), seconds |-> 0]
    ELSE [kind |-> "sleep", exc |-> "", file_name |-> None, detail |-> "",
          seconds |-> POLL_INTERVAL]

\* Lines 124-134, on one answer of client.batches.get: return the output file
\* name, raise RuntimeError(detail), or sleep and go round again.
PollStep(job_status) ==
    IF job_status.state = "JOB_STATE_SUCCEEDED"
    THEN [kind |-> "return", exc |-> "", file_name |-> job_status.dest, detail |-> "", seconds |-> 0]
    ELSE IF job_status.state = "JOB_STATE_FAILED"
    THEN [kind |-> "raise", exc |-> "RuntimeError", file_name |-> None,
          detail |-> "Batch Job Failed: " \o Str(job_status.error), seconds |-> 0]
    ELSE IF job_status.state \in {"JOB_STATE_CANCELLED", "JOB_STATE_EXPIRED"}
    THEN [kind |-> "raise", exc |-> "RuntimeError", file_name |-> None,
          detail |-> "Batch Job Stopped: " \o job_status.state, seconds |-> 0]
    ELSE [kind |-> "sleep", exc |-> "", file_name |-> None, detail |-> "",
          seconds |-> POLL_INTERVAL]

\* ------------------------------------------------------------------------
\* State
\* ------------------------------------------------------------------------
VARIABLES
    pc,                \* where the endpoint is
    comments,          \* request.comments
    original_map,      \* the id -> text map, as the list of its entries
    temp_file,         \* the temporary .jsonl file: "absent", "present", "removed"
    temp_content,      \* what has been written to it
    uploaded,          \* backend: the uploaded input file, None before the upload
    file_name,         \* batch_input_file.name, "" before the upload
    file_state,        \* batch_input_file.state.name, "" before the upload
    jobs_created,      \* backend: number of jobs client.batches.create started
    job_src,           \* backend: the src of the job, None before it is started
    job_state,         \* job_status.state.name of the latest answer, "" before
    job_dest,          \* job_status.dest.file_name of the latest answer
    job_error,         \* job_status.error of the latest answer
    raised,            \* the class of the exception the polling loop raised
    polls,             \* answers the polling loop has received
    slept,             \* seconds the polling loop slept after the latest answer
    output_file_name,  \* what run_google_batch_process returned
    downloaded,        \* the file parse_results asked client.files.download for
    text_content,      \* what parse_results downloaded and decoded
    parsed,            \* what parse_results raised or returned
    response,          \* the HTTP response
    other_request,     \* a second batch sent to the same process: "none",
                       \* "queued" (sent, its handler not started), "served"
    c_pc,              \* gemini/toxicity_classifier.py: where
                       \* analyze_text_toxicity is: "idle", "client", "call",
                       \* "returned", "raised"
    text_fragment,     \* its argument
    calls,             \* generate_content calls it has made in this invocation
    reply,             \* what the latest generate_content call did
    returned,          \* what it returned (Python None is <<>>)
    escaped,           \* the class of the exception that left it, "" if none
    invocations,       \* invocations so far
    app_name,          \* which hybrid application runs: "local_combination"
                       \* (fastapi.py, /analyze) or "local_api" (/analyze-batch)
    phase,             \* its lifespan: "starting", "running", "stopped"
    bert_classifier,   \* the global: None, or the loaded pipeline
    h_pc,              \* where its handler is: "idle", "bert", "loop"
    h_request,         \* the request being served, or served last
    batch_bert_raw,    \* what the pipeline returned for the request's texts
    idx,               \* the text the loop is at
    final_results,     \* the results built so far
    bert_calls,        \* calls of the pipeline made for this request
    llama_calls,       \* the texts (by position) passed to run_ollama_analysis
    llama_replies,     \* what ollama did for each of these calls
    h_response         \* the response to the request

\* The upload and the job, and the locals of the polling loop.
submitter == <<uploaded, file_name, file_state, jobs_created, job_src>>
poller == <<job_state, job_dest, job_error, raised, polls, slept>>

classifier == <<c_pc, text_fragment, calls, reply, returned, escaped, invocations>>

\* The variables of the /analyze-batch endpoint.
batch == <<pc, comments, original_map, temp_file, temp_content, submitter, poller,
           output_file_name, downloaded, text_content, parsed, response, other_request>>

hybrid == <<app_name, phase, bert_classifier, h_pc, h_request, batch_bert_raw, idx,
            final_results, bert_calls, llama_calls, llama_replies, h_response>>

vars == <<batch, classifier, hybrid>>

NoResponse == [status_code |-> "", detail |-> "", body |-> None]
HTTPException(code, detail) == [status_code |-> code, detail |-> detail, body |-> None]
BatchResponse(results, total, status) ==
    [status_code |-> "200", detail |-> "",
     body |-> Some([results |-> results, total_processed |-> total, status |-> status])]

\* The polling loop before its first query, and after the function has
\* returned.
NoPoller ==
    /\ job_state = ""
    /\ job_dest = None
    /\ job_error = None
    /\ raised = ""
    /\ polls = 0
    /\ slept = 0

\* analyze_text_toxicity has not been called.
NoReply == [exc |-> "", parsed |-> None]

ClassifierIdle ==
    /\ c_pc = "idle"
    /\ text_fragment = ""
    /\ calls = 0
    /\ reply = NoReply
    /\ returned = None
    /\ escaped = ""
    /\ invocations = 0

\* The endpoint before its request, whose comments are cs.
BatchStart(cs) ==
    /\ pc = "request"
    /\ other_request = "none"
    /\ comments = cs
    /\ original_map = <<>>
    /\ temp_file = "absent"
    /\ temp_content = <<>>
    /\ uploaded = None
    /\ file_name = ""
    /\ file_state = ""
    /\ jobs_created = 0
    /\ job_src = None
    /\ NoPoller
    /\ output_file_name = None
    /\ downloaded = None
    /\ text_content = None
    /\ parsed = None
    /\ response = NoResponse

\* A hybrid application before its startup.  No request, no response.
NoHybridRequest == [endpoint |-> "", texts |-> <<>>, threshold |-> 0]
NoHybridResponse ==
    [status_code |-> "", detail |-> "", results |-> <<>>, total_processed |-> 0,
     model_loaded |-> ""]

HybridStart(name) ==
    /\ app_name = name
    /\ phase = "starting"
    /\ bert_classifier = None
    /\ h_pc = "idle"
    /\ h_request = NoHybridRequest
    /\ batch_bert_raw = <<>>
    /\ idx = 0
    /\ final_results = <<>>
    /\ bert_calls = 0
    /\ llama_calls = <<>>
    /\ llama_replies = <<>>
    /\ h_response = NoHybridResponse

Init ==
    /\ \E cs \in BatchRequests : BatchStart(cs)
    /\ ClassifierIdle
    /\ HybridStart("local_api")

\* The error is recorded and the pipeline goes on where it was.
FailWithoutAbort(detail) ==
    /\ response' = HTTPException("500", detail)
    /\ temp_file' = temp_file
    /\ pc' = pc

\* The error is swallowed and the batch is submitted again.
FailRetries(detail) ==
    /\ response' = response
    /\ temp_file' = temp_file
    /\ pc' = "upload"

\* except Exception as e: raise HTTPException(500, str(e)), then the finally
\* block removes the temporary file.
Fail(detail) ==
    /\ response' = HTTPException("500", detail)
    /\ temp_file' = "removed"
    /\ pc' = "done"

\* The check left out.
NoCommentsUnchecked(cs) == FALSE

\* if not request.comments
NoComments(cs) == cs = <<>>

\* Lines 222-226: the emptiness check and the id -> text map.
Validate ==
    /\ pc = "request"
    /\ IF NoComments(comments)
       THEN /\ response' = HTTPException("400", "Lista komentarzy jest pusta.")
            /\ pc' = "done"
            /\ UNCHANGED original_map
       ELSE /\ original_map' = OriginalMap(comments)
            /\ pc' = "tempfile"
            /\ UNCHANGED response
    /\ UNCHANGED <<other_request, classifier, hybrid, comments, temp_file, temp_content, submitter, poller,
                   output_file_name, downloaded, text_content, parsed>>

\* Lines 229-234: the temporary file is created (delete=False), the encoded
\* document is written to it.  A failed write leaves the with block through
\* an exception that nothing in the endpoint catches.
WriteTempFile ==
    /\ pc = "tempfile"
    /\ temp_file' = "present"
    /\ \E ok \in BOOLEAN :
         IF ok
         THEN /\ temp_content' = create_jsonl_content(comments)
              /\ pc' = "upload"
              /\ UNCHANGED response
         ELSE /\ temp_content' = <<>>
              /\ pc' = "done"
              /\ response' = HTTPException("500", "Internal Server Error")
    /\ UNCHANGED <<other_request, classifier, hybrid, comments, original_map, submitter, poller,
                   output_file_name, downloaded, text_content, parsed>>

\* Lines 101-103: client.files.upload.
Upload ==
    /\ pc = "upload"
    /\ \/ /\ uploaded' = Some(temp_content)
          /\ file_name' \in InputFileNames
          /\ file_state' \in FileStates
          /\ pc' = "file_wait"
          /\ UNCHANGED <<temp_file, response>>
       \/ /\ Fail("upload rejected")
          /\ UNCHANGED <<uploaded, file_name, file_state>>
    /\ UNCHANGED <<other_request, classifier, hybrid, comments, original_map, temp_content, jobs_created, job_src,
                   poller, output_file_name, downloaded, text_content, parsed>>

\* Lines 106-108: while the file is STATE_PROCESSING, sleep and fetch it again
\* by its name.
WaitFile ==
    /\ pc = "file_wait"
    /\ StillProcessing(file_state)
    /\ \/ /\ file_state' \in FileStates
          /\ UNCHANGED <<pc, temp_file, response>>
       \/ /\ Fail("files.get failed")
          /\ UNCHANGED file_state
    /\ UNCHANGED <<other_request, classifier, hybrid, comments, original_map, temp_content, uploaded, file_name,
                   jobs_created, job_src, poller, output_file_name, downloaded, text_content,
                   parsed>>

\* Lines 112-115: client.batches.create, once the wait loop has ended.
CreateJob ==
    /\ pc = "file_wait"
    /\ ~StillProcessing(file_state)
    /\ \/ /\ jobs_created' = jobs_created + 1
          /\ job_src' = Some(JobSource(file_name))
          /\ pc' = "poll"
          /\ UNCHANGED <<temp_file, response>>
       \/ /\ Fail("batches.create rejected")
          /\ UNCHANGED <<jobs_created, job_src>>
    /\ UNCHANGED <<other_request, classifier, hybrid, comments, original_map, temp_content, uploaded, file_name,
                   file_state, poller, output_file_name, downloaded, text_content, parsed>>

\* Lines 120-134: one iteration of the polling loop.  The loop counts
\* nothing and has no limit: polls counts its answers up to MaxPolls and
\* stays there for the answers that follow.
Poll ==
    /\ pc = "poll"
    /\ \/ \E job_status \in StatusResponses :
               LET step == PollStep(job_status)
               IN  /\ job_state' = job_status.state
                   /\ job_dest' = job_status.dest
                   /\ job_error' = job_status.error
                   /\ raised' = step.exc
                   /\ polls' = IF polls < MaxPolls THEN polls + 1 ELSE polls
                   /\ slept' = step.seconds
                   /\ IF step.kind = "return"
                      THEN /\ output_file_name' = step.file_name
                           /\ pc' = "parse"
                           /\ UNCHANGED <<temp_file, response>>
                      ELSE IF step.kind = "raise"
                      THEN /\ Fail(step.detail)
                           /\ UNCHANGED output_file_name
                      ELSE UNCHANGED <<pc, temp_file, response, output_file_name>>
       \/ /\ Fail("batches.get failed")
          /\ UNCHANGED <<poller, output_file_name>>
    /\ UNCHANGED <<other_request, classifier, hybrid, comments, original_map, temp_content, submitter,
                   downloaded, text_content, parsed>>

\* The uploaded input file is asked for instead of the job's output.
DownloadNameInput(name) == Some(file_name)

\* Line 143: client.files.download(file=output_file_name).
DownloadName(name) == name

\* Lines 241-253: parse_results downloads, parses and merges; the endpoint
\* answers with the merged list, or with 500 for whatever was raised; the
\* finally block removes the temporary file.  run_google_batch_process has
\* returned by then: the locals of its polling loop are gone.
Reconcile ==
    /\ pc = "parse"
    /\ \/ \E doc \in OutputDocuments :
            LET r == parse_results(doc, original_map)
            IN  /\ text_content' = Some(doc)
                /\ parsed' = Some(r)
                /\ response' = IF r.exc # ""
                               THEN HTTPException("500", r.exc)
                               ELSE BatchResponse(r.value, Len(r.value), "completed")
       \/ /\ response' = HTTPException("500", "download failed")
          /\ UNCHANGED <<text_content, parsed>>
    /\ downloaded' = DownloadName(output_file_name)
    /\ temp_file' = "removed"
    /\ pc' = "done"
    /\ job_state' = ""
    /\ job_dest' = None
    /\ job_error' = None
    /\ raised' = ""
    /\ polls' = 0
    /\ slept' = 0
    /\ UNCHANGED <<other_request, classifier, hybrid, comments, original_map, temp_content, submitter,
                   output_file_name>>

Next ==
    \/ Validate
    \/ WriteTempFile
    \/ Upload
    \/ WaitFile
    \/ CreateJob
    \/ Poll
    \/ Reconcile

Spec == Init /\ [][Next]_vars

\* The handler keeps running: every call it makes returns or raises, every
\* sleep ends.  What the backend answers is not constrained.
SpecFair == Init /\ [][Next]_vars /\ WF_vars(Next)

\* The service as uvicorn.run(app) of line 267 runs it: one process, one
\* event loop. analyze_batch_endpoint is an async def, so it runs on that
\* loop, and its body has no await: time.sleep and the blocking client calls
\* keep the loop from the first line of the handler to its return. The loop
\* serves something else only when no handler is running.
EventLoopFree == pc \in {"request", "done"}

\* A second client sends its own batch to the same process.
ArriveOther ==
    /\ other_request = "none"
    /\ other_request' = "queued"
    /\ UNCHANGED <<pc, comments, original_map, temp_file, temp_content,
                   submitter, poller, output_file_name, downloaded, text_content, parsed,
                   response, classifier, hybrid>>

\* The handler of the second batch, from its first line to its return. Its
\* id map, temporary file and results are locals of its own call.
ServeOther ==
    /\ other_request = "queued"
    /\ EventLoopFree
    /\ other_request' = "served"
    /\ UNCHANGED <<pc, comments, original_map, temp_file, temp_content,
                   submitter, poller, output_file_name, downloaded, text_content, parsed,
                   response, classifier, hybrid>>

NextTwoBatches ==
    \/ Validate \/ WriteTempFile \/ Upload \/ WaitFile \/ CreateJob \/ Poll
    \/ Reconcile \/ ArriveOther \/ ServeOther

SpecTwoBatches == Init /\ [][NextTwoBatches]_vars

\* ------------------------------------------------------------------------
\* gemini/toxicity_classifier.py: analyze_text_toxicity
\* ------------------------------------------------------------------------
TextFragments ==
    {"", "Ty idioto.", "Some text", "You are useless", "Nice weather today"}

\* response.parsed: the ToxicityAnalysis the SDK parsed, by its toxicity
\* score; None when the SDK could not parse the reply.
ParsedResults == {None, Some([toxicity |-> "0.95"]), Some([toxicity |-> "0.0"])}

\* What client.models.generate_content does: it raises, or it returns a
\* response.
GenerateContentReplies ==
    {[exc |-> e, parsed |-> None] : e \in {"Exception", "ClientError", "ConnectError"}}
        \cup {[exc |-> "", parsed |-> p] : p \in ParsedResults}

\* Lines 87-103: return response.parsed, or None from the except branch.
ReturnValue(r) == IF r.exc # "" THEN None ELSE r.parsed

\* A caller calls analyze_text_toxicity(text_fragment).
CallClassifier ==
    /\ c_pc \in {"idle", "returned", "raised"}
    /\ invocations < MaxInvocations
    /\ invocations' = invocations + 1
    /\ text_fragment' \in TextFragments
    /\ calls' = 0
    /\ reply' = NoReply
    /\ returned' = None
    /\ escaped' = ""
    /\ c_pc' = "client"
    /\ UNCHANGED <<batch, hybrid>>

\* Line 72: genai.Client(api_key=API_KEY), before the try. API_KEY is
\* os.getenv("GOOGLE_API_KEY"); without a key the constructor raises
\* ValueError.
MakeClient ==
    /\ c_pc = "client"
    /\ \/ /\ c_pc' = "call"
          /\ UNCHANGED escaped
       \/ /\ c_pc' = "raised"
          /\ escaped' = "ValueError"
    /\ UNCHANGED <<batch, hybrid, text_fragment, calls, reply, returned, invocations>>

\* Lines 87-103: the call, and the return from the try or from the except
\* branch.
GenerateContent ==
    /\ c_pc = "call"
    /\ \E r \in GenerateContentReplies :
         /\ reply' = r
         /\ returned' = ReturnValue(r)
    /\ calls' = calls + 1
    /\ c_pc' = "returned"
    /\ UNCHANGED <<batch, hybrid, text_fragment, escaped, invocations>>

InitClassifier == BatchStart(<<>>) /\ ClassifierIdle /\ HybridStart("local_api")

NextClassifier == CallClassifier \/ MakeClient \/ GenerateContent

SpecClassifier == InitClassifier /\ [][NextClassifier]_vars

\* ------------------------------------------------------------------------
\* The hybrid applications: local_combination/fastapi.py (/analyze) and
\* toxicity_classifier_files/app/local_api.py (/analyze-batch).  They have
\* the same lifespan, the same run_ollama_analysis and the same treatment of
\* one text; /analyze takes one text, /analyze-batch a list.
\* Scores and thresholds are in hundredths.
\* ------------------------------------------------------------------------
HybridApps == {"local_combination", "local_api"}

\* max_score > 0.5
TOXIC_CUTOFF == 50

\* threshold: float = Field(0.40, ...)
DEFAULT_THRESHOLD == 40

Texts == {"You are useless", "Nice weather today"}
Thresholds == {DEFAULT_THRESHOLD, 50, 60}

\* What the pipeline returns for one text: a score per label.  The greatest
\* is 0.40, 0.50 or 0.60.
BertOutputs == {<<10, 40>>, <<50, 30>>, <<51, 60>>}

\* max(item.score for item in bert_scores)
MaxScore(bert_raw) ==
    CHOOSE m \in {bert_raw[k] : k \in 1..Len(bert_raw)} :
        \A k \in 1..Len(bert_raw) : bert_raw[k] <= m

\* is_toxic = max_score > 0.5
IsToxic(max_score) == max_score > TOXIC_CUTOFF

\* A score equal to the threshold triggers as well.
TriggersLlamaFromThreshold(max_score, threshold) == max_score >= threshold

\* if max_score > request.threshold
TriggersLlama(max_score, threshold) == max_score > threshold

\* What ollama.chat and json.loads of its content do: one of them raises, or
\* the content parses to a JSON value, named by what it holds:
\*   "full"     an object with the three fields
\*   "partial"  an object with is_ironic only
\*   "empty"    the object {}
\*   "badtype"  an object whose is_ironic is not a boolean
\*   "list"     a JSON array
LlamaReplies ==
    {[exc |-> e, value |-> ""] : e \in {"ConnectionError", "JSONDecodeError"}}
        \cup {[exc |-> "", value |-> v] :
                v \in {"full", "partial", "empty", "badtype", "list"}}

\* run_ollama_analysis: the parsed value, or None from the except branch.
run_ollama_analysis(r) == IF r.exc # "" THEN None ELSE Some(r.value)

\* if raw_llama: LlamaAnalysis(is_ironic=raw_llama.get(...), ...)
LlamaResult(raw_llama) ==
    IF raw_llama = None \/ raw_llama[1] = "empty"
    THEN [exc |-> "", analysis |-> None]
    ELSE IF raw_llama[1] = "list" THEN [exc |-> "AttributeError", analysis |-> None]
    ELSE IF raw_llama[1] = "badtype" THEN [exc |-> "ValidationError", analysis |-> None]
    ELSE IF raw_llama[1] = "full"
    THEN [exc |-> "",
          analysis |-> Some([is_ironic |-> TRUE, justification |-> "direct insult",
                             deciding_fragments |-> <<"useless">>])]
    ELSE [exc |-> "",
          analysis |-> Some([is_ironic |-> TRUE,
                             justification |-> "No justification provided.",
                             deciding_fragments |-> <<>>])]

\* SingleAnalysisResult; AnalyzeResponse is the same without the text.
SingleAnalysisResult(text, bert_scores, max_score, is_toxic, llama_result) ==
    [text |-> text, bert_scores |-> bert_scores, max_score |-> max_score,
     is_toxic_flag |-> is_toxic, llama_analysis |-> llama_result]

HybridError(code, detail) ==
    [status_code |-> code, detail |-> detail, results |-> <<>>, total_processed |-> 0,
     model_loaded |-> ""]

BatchAnalyzeResponse(results) ==
    [status_code |-> "200", detail |-> "", results |-> results,
     total_processed |-> Len(results), model_loaded |-> ""]

HealthResponse(loaded) ==
    [status_code |-> "200", detail |-> "", results |-> <<>>, total_processed |-> 0,
     model_loaded |-> IF loaded THEN "true" ELSE "false"]

\* The check left out.
NotLoadedUnchecked(classifier_ref) == FALSE

\* if not bert_classifier
NotLoaded(classifier_ref) == classifier_ref = None

HybridRequests(name) ==
    {[endpoint |-> IF name = "local_api" THEN "/analyze-batch" ELSE "/analyze",
      texts |-> ts, threshold |-> th] :
        ts \in (IF name = "local_api" THEN SeqsUpTo(Texts, MaxTexts)
                ELSE [1..1 -> Texts]),
        th \in Thresholds}

\* lifespan before the yield: the pipeline is loaded, or the load raises and
\* the global stays None.
Startup ==
    /\ phase = "starting"
    /\ phase' = "running"
    /\ bert_classifier' \in {None, Some("unitary/toxic-bert")}
    /\ UNCHANGED <<batch, classifier, app_name, h_pc, h_request, batch_bert_raw, idx,
                   final_results, bert_calls, llama_calls, llama_replies, h_response>>

\* lifespan after the yield.  The handlers are coroutines without an await,
\* so none is half-way when the server shuts down.
Shutdown ==
    /\ phase = "running"
    /\ h_pc = "idle"
    /\ phase' = "stopped"
    /\ bert_classifier' = None
    /\ UNCHANGED <<batch, classifier, app_name, h_pc, h_request, batch_bert_raw, idx,
                   final_results, bert_calls, llama_calls, llama_replies, h_response>>

\* analyze_text / analyze_batch up to the call of the pipeline: the 503 and
\* 400 checks.
HybridRequest ==
    /\ h_pc = "idle"
    /\ \E req \in HybridRequests(app_name) :
         /\ h_request' = req
         /\ IF NotLoaded(bert_classifier)
            THEN /\ h_response' = HybridError("503", "BERT model is not loaded yet.")
                 /\ h_pc' = "idle"
            ELSE IF req.endpoint = "/analyze-batch" /\ req.texts = <<>>
            THEN /\ h_response' = HybridError("400", "Input list 'texts' cannot be empty.")
                 /\ h_pc' = "idle"
            ELSE /\ h_response' = NoHybridResponse
                 /\ h_pc' = "bert"
    /\ batch_bert_raw' = <<>>
    /\ idx' = 0
    /\ final_results' = <<>>
    /\ bert_calls' = 0
    /\ llama_calls' = <<>>
    /\ llama_replies' = <<>>
    /\ UNCHANGED <<batch, classifier, app_name, phase, bert_classifier>>

\* bert_classifier(request.texts): a list of scores per text; calling None
\* or a failing pipeline raises, and the server answers 500.
CallBert ==
    /\ h_pc = "bert"
    /\ bert_calls' = bert_calls + 1
    /\ \/ /\ bert_classifier # None
          /\ batch_bert_raw' \in [1..Len(h_request.texts) -> BertOutputs]
          /\ idx' = 1
          /\ h_pc' = "loop"
          /\ UNCHANGED h_response
       \/ /\ h_response' = HybridError("500", "Internal Server Error")
          /\ h_pc' = "idle"
          /\ UNCHANGED <<batch_bert_raw, idx>>
    /\ UNCHANGED <<batch, classifier, app_name, phase, bert_classifier, h_request,
                   final_results, llama_calls, llama_replies>>

\* One iteration of the loop over the texts (the whole of it for /analyze),
\* and the return after the last one.
LoopText ==
    /\ h_pc = "loop"
    /\ LET text == h_request.texts[idx]
           bert_scores == batch_bert_raw[idx]
           max_score == MaxScore(bert_scores)
           is_toxic == IsToxic(max_score)
           triggered == TriggersLlama(max_score, h_request.threshold)
       IN  \E r \in IF triggered THEN LlamaReplies ELSE {[exc |-> "", value |-> ""]} :
             LET llama == IF triggered THEN LlamaResult(run_ollama_analysis(r))
                          ELSE [exc |-> "", analysis |-> None]
                 results == Append(final_results,
                                SingleAnalysisResult(
                                    IF h_request.endpoint = "/analyze" THEN "" ELSE text,
                                    bert_scores, max_score, is_toxic, llama.analysis))
             IN  /\ llama_calls' = IF triggered THEN Append(llama_calls, idx)
                                   ELSE llama_calls
                 /\ llama_replies' = IF triggered THEN Append(llama_replies, r)
                                     ELSE llama_replies
                 /\ IF llama.exc # ""
                    THEN /\ h_response' = HybridError("500", "Internal Server Error")
                         /\ h_pc' = "idle"
                         /\ UNCHANGED <<final_results, idx>>
                    ELSE /\ final_results' = results
                         /\ IF idx = Len(h_request.texts)
                            THEN /\ h_response' = BatchAnalyzeResponse(results)
                                 /\ h_pc' = "idle"
                                 /\ UNCHANGED idx
                            ELSE /\ idx' = idx + 1
                                 /\ UNCHANGED <<h_response, h_pc>>
    /\ UNCHANGED <<batch, classifier, app_name, phase, bert_classifier, h_request,
                   batch_bert_raw, bert_calls>>

\* health_check
Health ==
    /\ h_pc = "idle"
    /\ h_request' = [endpoint |-> "/health", texts |-> <<>>, threshold |-> 0]
    /\ h_response' = HealthResponse(bert_classifier # None)
    /\ batch_bert_raw' = <<>>
    /\ idx' = 0
    /\ final_results' = <<>>
    /\ bert_calls' = 0
    /\ llama_calls' = <<>>
    /\ llama_replies' = <<>>
    /\ UNCHANGED <<batch, classifier, app_name, phase, bert_classifier, h_pc>>

InitHybrid ==
    /\ BatchStart(<<>>)
    /\ ClassifierIdle
    /\ \E name \in HybridApps : HybridStart(name)

NextHybrid ==
    Startup \/ Shutdown \/ HybridRequest \/ CallBert \/ LoopText \/ Health

SpecHybrid == InitHybrid /\ [][NextHybrid]_vars

\* ------------------------------------------------------------------------
\* Vocabulary of the properties
\* ------------------------------------------------------------------------
\* No two items of the request share an id.
UniqueIds(cs) == \A i, j \in 1..Len(cs) : cs[i].id = cs[j].id => i = j

Returned == parsed # None /\ parsed[1].exc = ""
Results == parsed[1].value
Document == text_content[1]

IsMalformed(line) == line.kind = "malformed"
HasMalformed(doc) == \E k \in 1..Len(doc) : IsMalformed(doc[k])
WithoutMalformed(doc) == SelectSeq(doc, LAMBDA l : ~IsMalformed(l))

\* The ids that some line of the document names.
NamedIn(doc) == {doc[k].custom_id : k \in {n \in 1..Len(doc) : doc[n].kind = "object"}}

\* A line whose result string cannot be used: it does not parse, or what it
\* parses to does not validate as a ToxicityAnalysis.
Unusable(line) ==
    /\ line.kind = "object"
    /\ line.shape = "text"
    /\ LET raw == StripFences(line.text)
       IN  ~JsonLoadsOk(raw) \/ ~model_validate(JsonLoads(raw))

\* The last line of the document that names id, 0 if there is none.
LastLineFor(doc, id) ==
    LET S == {k \in 1..Len(doc) : doc[k].kind = "object" /\ doc[k].custom_id = Some(id)}
    IN  IF S = {} THEN 0 ELSE CHOOSE k \in S : \A j \in S : j <= k

ExactlyOne(item) == (item.analysis = None) # (item.error = None)

Drop(s, i) == [k \in 1..(Len(s) - 1) |-> IF k < i THEN s[k] ELSE s[k + 1]]

\* ------------------------------------------------------------------------
\* Properties
\* ------------------------------------------------------------------------

\* C1 (completeness): for a request with unique ids, whatever document the
\* backend wrote, parse_results returns a list as long as the input in which
\* every input id occurs exactly once.
C1_Completeness ==
    (parsed # None /\ UniqueIds(comments)) =>
        /\ parsed[1].exc = ""
        /\ Len(Results) = Len(comments)
        /\ \A i \in 1..Len(comments) :
             Cardinality({j \in 1..Len(Results) : Results[j].id = comments[i].id}) = 1

\* C2 (partial failure isolation): when parse_results returns, every item
\* has the outcome it has when the unparsable lines are taken out of the
\* document.
C2_MalformedLineIsolated ==
    Returned => parsed[1] = parse_results(WithoutMalformed(Document), original_map)

\* C3 (an unparsable line is skipped): if the document reconciles normally
\* without its unparsable lines, it reconciles normally with them, wherever
\* they stand, with one result per input item.
C3_MalformedLineSkipped ==
    (/\ parsed # None
     /\ HasMalformed(Document)
     /\ parse_results(WithoutMalformed(Document), original_map).exc = "")
    => (Returned /\ Len(Results) = Len(original_map))

\* C4 (per-item failures never abort): with every line of the document
\* parsable, parse_results returns, and an item whose result string cannot
\* be used has error set and analysis null.
C4_PerItemFailureDegrades ==
    (parsed # None /\ ~HasMalformed(Document)) =>
        /\ Returned
        /\ \A i \in 1..Len(original_map) :
             LET k == LastLineFor(Document, original_map[i].id)
             IN  (k # 0 /\ Unusable(Document[k])) =>
                    (Results[i].error # None /\ Results[i].analysis = None)

\* C5 (error or full list): a finished request has either an error response
\* or a response with as many results as submitted items, total_processed
\* equal to that number and status "completed".
C5_ErrorOrFullResponse ==
    pc = "done" =>
        \/ response.body = None /\ response.status_code \in {"400", "500"}
        \/ /\ response.body # None
           /\ Len(response.body[1].results) = Len(comments)
           /\ response.body[1].total_processed = Len(comments)
           /\ response.body[1].status = "completed"

\* C6 (order preservation): for a request with unique ids, the i-th result
\* has the id and the text of the i-th submitted item, in whatever order the
\* document lists its lines.
C6_OrderPreserved ==
    (Returned /\ UniqueIds(comments)) =>
        /\ Len(Results) = Len(comments)
        /\ \A i \in 1..Len(comments) :
             Results[i].id = comments[i].id /\ Results[i].text = comments[i].text

\* The document names the second submitted item before the first one.
C6_Witness ==
    /\ Returned
    /\ UniqueIds(comments)
    /\ Len(comments) = 2
    /\ Len(Document) = 2
    /\ Document[1].custom_id = Some(comments[2].id)
    /\ Document[2].custom_id = Some(comments[1].id)
    /\ \A i \in 1..2 : Results[i].analysis # None

\* C7 (exactly one of analysis and error): every AnalyzedComment that
\* parse_results returns has analysis or error set, never both and never
\* neither.
C7_ExactlyOneOfAnalysisError ==
    Returned => \A i \in 1..Len(Results) : ExactlyOne(Results[i])

\* Two lookups of one returned list: a result string that holds an "error"
\* key, and a good result.
C7_Witness ==
    /\ Returned
    /\ \E i, j \in 1..Len(Results) :
         /\ Results[i].error = Some("refused")
         /\ Results[j].analysis # None

\* C8 (missing id): an input id that no line of the document names gets an
\* AnalyzedComment with error set and analysis null, and the other items are
\* reconciled as they are without it.
C8_MissingIdYieldsError ==
    Returned =>
        \A i \in 1..Len(original_map) :
            Some(original_map[i].id) \notin NamedIn(Document) =>
                /\ Results[i].error # None
                /\ Results[i].analysis = None
                /\ LET r == parse_results(Document, Drop(original_map, i))
                   IN  r.exc = "" /\ r.value = Drop(Results, i)

\* One item is named by the document and analysed, the other is not named.
C8_Witness ==
    /\ Returned
    /\ Len(original_map) = 2
    /\ \E i, j \in 1..2 :
         /\ Some(original_map[i].id) \notin NamedIn(Document)
         /\ Results[i].error = Some(NoResultFound)
         /\ Results[j].analysis # None

\* C9 (duplicate ids are rejected): a request in which two items share an
\* id ends in a validation error, and nothing is written, uploaded, started
\* or reconciled for it.
C9_DuplicateIdsRejected ==
    (~UniqueIds(comments) /\ pc # "request") =>
        /\ pc = "done"
        /\ response.status_code \in {"400", "422"}
        /\ temp_file = "absent"
        /\ uploaded = None
        /\ jobs_created = 0
        /\ parsed = None

\* C10 (empty input is rejected): an empty request ends at once in a 400
\* response; no temporary file, no upload, no job and no status query.
C10_EmptyRejected ==
    (comments = <<>> /\ pc # "request") =>
        /\ pc = "done"
        /\ response.status_code = "400"
        /\ temp_file = "absent"
        /\ uploaded = None
        /\ file_state = ""
        /\ jobs_created = 0
        /\ job_state = ""
        /\ parsed = None

C10_Witness == comments = <<>> /\ pc = "done" /\ response.status_code = "400"

\* A step of the polling loop that received an answer: a failed query
\* leaves the locals of the loop as they were.
Answered == pc = "poll" /\ poller' # poller

TerminalStates ==
    {"JOB_STATE_SUCCEEDED"} \cup TerminalFailed \cup TerminalStopped

\* C11 (poller success path): the answer JOB_STATE_SUCCEEDED, after any
\* number of non-terminal answers, ends the polling; what the poller returns
\* is the output file named by that same answer, and it returns on no other
\* answer.
C11_PollerReturnsOnSuccess ==
    [][/\ (Answered /\ job_state' = "JOB_STATE_SUCCEEDED") =>
            /\ pc' = "parse"
            /\ job_dest' # None
            /\ output_file_name' = job_dest'
            /\ response' = NoResponse
       /\ (pc = "poll" /\ pc' = "parse") =>
            (Answered /\ job_state' = "JOB_STATE_SUCCEEDED")]_vars

\* The scripted sequence of the spec: two non-terminal answers, then
\* JOB_STATE_SUCCEEDED.
C11_Witness ==
    /\ pc = "parse"
    /\ polls = 3
    /\ slept = 0
    /\ job_state = "JOB_STATE_SUCCEEDED"
    /\ output_file_name = job_dest
    /\ output_file_name \in {Some(f) : f \in OutputFileNames}

\* The exception classes the loop raises for a cancelled or expired job.
StoppedKinds ==
    {PollStep(stopped).exc :
        stopped \in {st \in StatusResponses : st.state \in TerminalStopped}}

\* C12 (poller failure outcomes): JOB_STATE_FAILED ends the polling with an
\* error carrying the backend's error; JOB_STATE_CANCELLED and
\* JOB_STATE_EXPIRED end it with an error carrying the state's name; no
\* output file name is returned with either; and the error raised for a
\* failed job is of another kind than the error raised for a stopped job.
C12_PollerRaisesOnFailure ==
    [][/\ (Answered /\ job_state' \in TerminalFailed) =>
            /\ pc' = "done"
            /\ response' = HTTPException("500", "Batch Job Failed: " \o job_error'[1])
            /\ output_file_name' = None
            /\ raised' # ""
            /\ raised' \notin StoppedKinds
       /\ (Answered /\ job_state' \in TerminalStopped) =>
            /\ pc' = "done"
            /\ response' = HTTPException("500", "Batch Job Stopped: " \o job_state')
            /\ output_file_name' = None
            /\ raised' # ""]_vars

\* C13 (any other status keeps the poller polling): on an answer that is
\* none of the four terminal states the poller neither returns nor raises;
\* it sleeps the poll interval and is back at the status query.
C13_PollerContinuesOnOther ==
    [][(Answered /\ job_state' \notin TerminalStates) =>
            /\ pc' = "poll"
            /\ slept' = POLL_INTERVAL
            /\ output_file_name' = None
            /\ response' = NoResponse
            /\ temp_file' = temp_file]_vars

\* An unexpected state has been answered twice and the loop is still at its
\* query.
C13_Witness ==
    /\ pc = "poll"
    /\ polls = 2
    /\ job_state = "JOB_STATE_UNSPECIFIED"
    /\ slept = POLL_INTERVAL
    /\ response = NoResponse

\* C14 (the temporary file is removed on every exit path): no request that
\* has ended leaves its temporary request file on disk.
C14_TempFileRemoved ==
    pc = "done" => temp_file # "present"

\* C15 (batches run concurrently): whenever the first batch is waiting for
\* its uploaded file or for its job and a second batch is queued at the same
\* process, the second batch can be started.
C15_OtherRunsWhileWaiting ==
    (pc \in {"file_wait", "poll"} /\ other_request = "queued") =>
        ENABLED ServeOther

\* The details of the batch-level failures, by the stage that failed.
SubmissionFailures == {"upload rejected", "files.get failed", "batches.create rejected"}

JobFailures ==
    {"batches.get failed"}
        \cup {"Batch Job Failed: " \o e : e \in JobErrors \cup {"None"}}
        \cup {"Batch Job Stopped: " \o st : st \in TerminalStopped}

FetchFailures == {"download failed"}

\* C16 (batch-level failures abort the pipeline and surface one error): a
\* request whose upload, job start, polling or download failed has ended
\* with a single 500 response carrying that failure's detail and no result
\* list, and no later stage has run for it: no job after a failed
\* submission, no download after a failed job, no reconciliation after a
\* failed download. A response, once given, is the end of the request.
C16_BatchFailureAborts ==
    /\ [](response # NoResponse => pc = "done")
    /\ [](response.detail \in SubmissionFailures =>
            /\ response = HTTPException("500", response.detail)
            /\ jobs_created = 0 /\ job_src = None /\ polls = 0
            /\ output_file_name = None /\ text_content = None /\ parsed = None)
    /\ [](response.detail = "upload rejected" => uploaded = None)
    /\ [](response.detail \in JobFailures =>
            /\ response = HTTPException("500", response.detail)
            /\ output_file_name = None /\ text_content = None /\ parsed = None)
    /\ [](response.detail \in FetchFailures =>
            /\ response = HTTPException("500", response.detail)
            /\ text_content = None /\ parsed = None)
    /\ [][response # NoResponse => response' = response]_vars

\* A job that was started and then failed, after one non-terminal answer.
C16_Witness ==
    /\ pc = "done"
    /\ jobs_created = 1
    /\ polls = 2
    /\ job_state = "JOB_STATE_FAILED"
    /\ response = HTTPException("500", "Batch Job Failed: quota exceeded")
    /\ output_file_name = None
    /\ parsed = None

\* C17 (the backend job is never retried): at most one job is started for a
\* request, and once a failure has been answered or the job has been
\* reported failed, cancelled or expired, nothing is uploaded and no job is
\* started.
C17_JobNeverRetried ==
    /\ [](jobs_created <= 1)
    /\ [][(\/ response # NoResponse
           \/ job_state \in TerminalFailed \cup TerminalStopped) =>
              /\ uploaded' = uploaded
              /\ jobs_created' = jobs_created
              /\ job_src' = job_src]_vars

\* An expired job: one job was started, and the request has ended.
C17_Witness ==
    /\ pc = "done"
    /\ job_state = "JOB_STATE_EXPIRED"
    /\ jobs_created = 1
    /\ uploaded # None
    /\ response.status_code = "500"

\* C18 (the job is started only after the file has left processing): at
\* every job start the latest file state observed is not STATE_PROCESSING,
\* a file has been uploaded, and the job's source is that file.
C18_JobStartsAfterProcessing ==
    [][jobs_created' > jobs_created =>
          /\ uploaded # None
          /\ file_state \in FileStates \ {"STATE_PROCESSING"}
          /\ file_name \in InputFileNames
          /\ job_src' = Some(file_name)]_vars

\* The job has been started on the uploaded file.
C18_Witness ==
    /\ pc = "poll"
    /\ polls = 0
    /\ jobs_created = 1
    /\ file_state = "STATE_ACTIVE"
    /\ job_src = Some(file_name)
    /\ uploaded = Some(temp_content)

\* The temporary file has been written: what the encoder produced is
\* temp_content.
Encoded == pc \in {"upload", "file_wait", "poll", "parse"} \/ uploaded # None

RequestLines == SplitLines(temp_content)

\* C19 (one request line per item): the encoded document has as many lines
\* as the request has items, line breaks in the texts notwithstanding; line
\* i is a JSON object whose custom_id is the id of item i, whose prompt
\* contains the text of item i, and whose generation settings are
\* temperature 0.0, the JSON mime type and the ToxicityAnalysis schema.
C19_OneLinePerItem ==
    Encoded =>
        /\ Len(RequestLines) = Len(comments)
        /\ \A i \in 1..Len(comments) :
             LET req == JsonLoadsRequest(RequestLines[i])
             IN  /\ req.ok
                 /\ Len(req.members) = Cardinality(StringKeys \cup BareKeys)
                 /\ Member(req, "custom_id:") = <<comments[i].id>>
                 /\ Member(req, "method:") = <<"models.generateContent">>
                 /\ Member(req, "request.model:") = <<"models/" \o MODEL_ID>>
                 /\ Member(req, "request.contents[0].parts[0].text:")
                        = prompt_text(comments[i])
                 /\ Contains(Member(req, "request.contents[0].parts[0].text:"),
                             comments[i].text)
                 /\ Member(req, "request.generationConfig.temperature:")
                        = <<TEMPERATURE>>
                 /\ Member(req, "request.generationConfig.response_mime_type:")
                        = <<"application/json">>
                 /\ Member(req, "request.generationConfig.response_json_schema:")
                        = <<SchemaText>>

\* Two items, the first with a line break in its text, encoded as two lines.
C19_Witness ==
    /\ pc = "upload"
    /\ Len(comments) = 2
    /\ comments[1].id = "b"
    /\ comments[2].id = "a"
    /\ NL \in {comments[1].text[k] : k \in 1..Len(comments[1].text)}
    /\ Len(RequestLines) = 2
    /\ JsonLoadsRequest(RequestLines[1]).ok

\* The request and the document of the end-to-end example: the items "a"
\* and "b" in this order; a document whose only line that is not blank is a
\* successful structured result for "a".
ExampleRequest ==
    Len(comments) = 2 /\ comments[1].id = "a" /\ comments[2].id = "b"

ExampleDocument ==
    /\ text_content # None
    /\ SelectSeq(Document, LAMBDA l : l.kind # "blank")
          = <<ResultLine(Some("a"), <<"valid">>)>>

\* What the example's response is, the error of "b" being msg.
ExampleResponse(msg) ==
    /\ response.status_code = "200"
    /\ response.body # None
    /\ LET body == response.body[1]
       IN  /\ body.total_processed = 2
           /\ Len(body.results) = 2
           /\ body.results[1].id = "a"
           /\ body.results[1].analysis = Some(JDict(ToxicityAnalysis, ""))
           /\ body.results[1].error = None
           /\ body.results[2].id = "b"
           /\ body.results[2].analysis = None
           /\ body.results[2].error = Some(msg)

\* C21 as stated (end-to-end example): "a" has its analysis and no error,
\* "b" has no analysis and the error "no result returned", and
\* total_processed is 2.
C21_ExampleAsStated ==
    (pc = "done" /\ ExampleRequest /\ ExampleDocument) =>
        ExampleResponse("no result returned")

\* C21 amended (end-to-end example): as stated, but the error of "b" is the
\* text "No result found (Job failed or ID mismatch)".
C21_EndToEndExample ==
    (pc = "done" /\ ExampleRequest /\ ExampleDocument) =>
        ExampleResponse(NoResultFound)

\* The example has been served, a blank line following the result of "a".
C21_Witness ==
    /\ pc = "done"
    /\ ExampleRequest
    /\ comments[1].text = <<"You are useless">>
    /\ text_content = Some(<<ResultLine(Some("a"), <<"valid">>), BlankLine>>)
    /\ response.status_code = "200"
    /\ response.body[1].total_processed = 2

\* C22 (analyze_text_toxicity never raises): no exception leaves the
\* function; when the model call raised, it returned None; when the call
\* succeeded, it made one call and returned what that call parsed, the empty
\* text included.
C22_ClassifierNeverRaises ==
    /\ c_pc # "raised"
    /\ escaped = ""
    /\ (c_pc = "returned" /\ reply.exc # "") => returned = None
    /\ (c_pc = "returned" /\ reply.exc = "") =>
            (calls = 1 /\ returned = reply.parsed)

\* The texts of the request whose greatest score is above its threshold, by
\* position, among the first upto.
AboveThreshold(upto) ==
    SelectSeq([k \in 1..upto |-> k],
              LAMBDA k : MaxScore(batch_bert_raw[k]) > h_request.threshold)

\* The texts the loop has dealt with.
Processed ==
    IF h_pc = "loop" THEN idx - 1
    ELSE IF h_response.status_code = "200" THEN Len(h_request.texts)
    ELSE Len(final_results) + 1

\* C23 (the hybrid trigger): run_ollama_analysis is called for a text if
\* and only if the greatest BERT score of the text is strictly above the
\* threshold of the request; is_toxic_flag says whether that score is
\* strictly above 0.5, whatever the threshold; a call that raised leaves
\* llama_analysis null, and the request is answered all the same.
C23_LlamaIffAboveThreshold ==
    /\ [](batch_bert_raw # <<>> =>
            /\ llama_calls = AboveThreshold(Processed)
            /\ Len(llama_replies) = Len(llama_calls)
            /\ \A k \in 1..Len(final_results) :
                 /\ final_results[k].max_score = MaxScore(batch_bert_raw[k])
                 /\ final_results[k].is_toxic_flag
                        = (MaxScore(batch_bert_raw[k]) > TOXIC_CUTOFF)
                 /\ (MaxScore(batch_bert_raw[k]) <= h_request.threshold)
                        => final_results[k].llama_analysis = None
            /\ \A c \in 1..Len(llama_calls) :
                 (llama_replies[c].exc # "" /\ llama_calls[c] <= Len(final_results))
                    => final_results[llama_calls[c]].llama_analysis = None
            /\ h_response.status_code = "200" =>
                 (/\ h_response.results = final_results
                  /\ Len(final_results) = Len(h_request.texts)))
    /\ [][(/\ h_pc = "loop"
           /\ Len(llama_replies') = Len(llama_replies) + 1
           /\ llama_replies'[Len(llama_replies')].exc # "") =>
              /\ h_response'.status_code # "500"
              /\ Len(final_results') = Len(final_results) + 1
              /\ final_results'[Len(final_results')].llama_analysis = None]_vars

\* A batch of two at the default threshold 0.40: the first text scores 0.40
\* and Llama is not called for it; the second scores 0.50, Llama is called
\* and raises, the flag is false, and the response is 200.
C23_Witness ==
    /\ h_pc = "idle"
    /\ h_response.status_code = "200"
    /\ h_request.threshold = DEFAULT_THRESHOLD
    /\ Len(h_request.texts) = 2
    /\ MaxScore(batch_bert_raw[1]) = DEFAULT_THRESHOLD
    /\ MaxScore(batch_bert_raw[2]) = TOXIC_CUTOFF
    /\ llama_calls = <<2>>
    /\ llama_replies[1].exc = "ConnectionError"
    /\ h_response.results[1].is_toxic_flag = FALSE
    /\ h_response.results[2].is_toxic_flag = FALSE
    /\ h_response.results[2].llama_analysis = None

AnalyzeEndpoints == {"/analyze", "/analyze-batch"}

\* A step in which a handler is entered for a request to endpoint.
Enters(endpoint) ==
    /\ h_pc = "idle"
    /\ phase' = phase
    /\ h_request'.endpoint \in endpoint

\* C30 (analysis is served only while the model is loaded): the model
\* reference is None before startup has finished, after a failed load and
\* after shutdown; an analyze request that finds it None is answered 503
\* and calls neither BERT nor Llama, and one that finds it loaded is not
\* answered 503; health reports model_loaded false exactly when the
\* reference is None.
C30_ServesOnlyWhenLoaded ==
    /\ [](phase \in {"starting", "stopped"} => bert_classifier = None)
    /\ [](h_response.status_code = "503" =>
            (bert_calls = 0 /\ llama_calls = <<>> /\ batch_bert_raw = <<>>))
    /\ [][Enters(AnalyzeEndpoints) =>
            /\ (bert_classifier = None) <=> (h_response'.status_code = "503")
            /\ bert_classifier = None =>
                 (h_pc' = "idle" /\ bert_calls' = 0 /\ llama_calls' = <<>>)]_vars
    /\ [][Enters({"/health"}) =>
            /\ h_response'.status_code = "200"
            /\ (h_response'.model_loaded = "false") <=> (bert_classifier = None)
            /\ (h_response'.model_loaded = "true") <=> (bert_classifier # None)]_vars
    /\ [][(phase = "running" /\ phase' = "stopped") => bert_classifier' = None]_vars

\* A batch request after shutdown, answered 503.
C30_Witness ==
    /\ phase = "stopped"
    /\ bert_classifier = None
    /\ h_request.endpoint = "/analyze-batch"
    /\ Len(h_request.texts) = 2
    /\ h_response = HybridError("503", "BERT model is not loaded yet.")
    /\ bert_calls = 0
    /\ llama_calls = <<>>


\* C24 (no transition out of a terminal state): once a status query has
\* answered one of the four terminal states the loop is left, no further
\* status query is made for the job, and an outcome already given to the
\* caller stays what it is whatever the backend reports later.
C24_NoQueryAfterTerminal ==
    /\ [](job_state \in TerminalStates => pc \in {"parse", "done"})
    /\ [][(job_state \in TerminalStates) =>
            (/\ ~Answered
             /\ polls' \in {polls, 0}
             /\ (pc = "done" => (response' = response /\ job_state' = job_state)))]_vars

\* A cancelled job, answered after two non-terminal answers; the request
\* has ended with the loop's error.
C24_Witness ==
    /\ pc = "done"
    /\ job_state = "JOB_STATE_CANCELLED"
    /\ polls = 3
    /\ response = HTTPException("500", "Batch Job Stopped: JOB_STATE_CANCELLED")

\* The stages of one batch, in the order the endpoint goes through them.
Stage(at) ==
    CASE at = "request" -> 0
      [] at = "tempfile" -> 1
      [] at = "upload" -> 2
      [] at = "file_wait" -> 3
      [] at = "poll" -> 4
      [] at = "parse" -> 5
      [] at = "done" -> 6

\* C25 (one batch's stages run strictly in order): encode, upload, job
\* start, poll, fetch, reconcile.  No stage is gone back to; each stage has
\* happened only if the one before it has; the download is made only after
\* a status query answered JOB_STATE_SUCCEEDED and asks for the output file
\* that answer named; and results exist only for a completed download.
C25_StagesInOrder ==
    /\ [](uploaded # None =>
            (temp_file # "absent" /\ uploaded = Some(create_jsonl_content(comments))))
    /\ [](jobs_created > 0 => uploaded # None)
    /\ [](polls > 0 => jobs_created = 1)
    /\ [](output_file_name # None => jobs_created = 1)
    /\ [](downloaded # None => downloaded = output_file_name)
    /\ [](text_content # None => downloaded # None)
    /\ [](parsed # None => text_content # None)
    /\ [][Stage(pc') >= Stage(pc)]_vars
    /\ [][(downloaded' # downloaded \/ text_content' # text_content) =>
            (/\ pc = "parse"
             /\ job_state = "JOB_STATE_SUCCEEDED"
             /\ job_dest # None
             /\ downloaded' = job_dest)]_vars

\* A batch that went through every stage: the named output file was
\* downloaded and reconciled into a response.
C25_Witness ==
    /\ pc = "done"
    /\ jobs_created = 1
    /\ downloaded = Some("files/batch-output")
    /\ text_content # None
    /\ parsed # None
    /\ response.status_code = "200"


\* A line on which the backend reports a failure for its item: an error
\* object, no candidates, or a candidate with empty parts.
BackendError(line) ==
    line.kind = "object" /\ line.shape \in {"error", "none", "noparts"}

\* The detail lines 178-182 record for such a line.
BackendDetail(line) ==
    CASE line.shape = "error" -> line.error
      [] line.shape = "noparts" -> "Empty parts in response"
      [] OTHER -> "No candidates returned"

\* The lines of the document that name id.
LinesFor(doc, id) ==
    {k \in 1..Len(doc) : doc[k].kind = "object" /\ doc[k].custom_id = Some(id)}

\* C26 (a per-item error of the backend): when the one line that names an
\* input id reports a backend error, the item of that id has analysis null
\* and error set to the detail the backend reported, and every other item
\* has the outcome it has when that line is taken out of the document.
C26_BackendErrorRecorded ==
    Returned =>
        \A i \in 1..Len(original_map) :
            LET k == LastLineFor(Document, original_map[i].id)
            IN  (/\ Cardinality(LinesFor(Document, original_map[i].id)) = 1
                 /\ BackendError(Document[k])) =>
                   /\ Results[i].analysis = None
                   /\ Results[i].error = Some(BackendDetail(Document[k]))
                   /\ LET r == parse_results(Drop(Document, k), original_map)
                      IN  /\ r.exc = ""
                          /\ \A j \in 1..Len(original_map) :
                                j # i => r.value[j] = Results[j]

\* The lines that parse as an object without the custom_id key.
HasNoId(line) == line.kind = "object" /\ line.custom_id = None
WithoutIdless(doc) == SelectSeq(doc, LAMBDA l : ~HasNoId(l))

\* C27 (a line without a correlation id is dropped): parse_results ends as
\* it ends on the document without its id-less lines: the same list, item
\* by item, and no abort that the document without them does not have.
C27_IdlessLineDropped ==
    parsed # None =>
        parsed[1] = parse_results(WithoutIdless(Document), original_map)


\* A result string between an opening json fence and a closing fence, and
\* what stands between the two.
IsFenced(text) ==
    Len(text) >= 2 /\ text[1] = "[fence json]" /\ text[Len(text)] = "[fence]"
Unwrap(text) == IF IsFenced(text) THEN SubSeq(text, 2, Len(text) - 1) ELSE text

\* The document with every fenced result string replaced by the result
\* string inside the fence.
Unfenced(doc) == [k \in 1..Len(doc) |-> [doc[k] EXCEPT !.text = Unwrap(@)]]

\* C29 (markdown fencing is stripped before parsing): a document reconciles
\* to what it reconciles to with its fenced result strings taken out of
\* their fences, and a result string that is not fenced and parses as JSON
\* parses to the same value after the stripping.
C29_FenceStripped ==
    text_content # None =>
        /\ parsed[1] = parse_results(Unfenced(Document), original_map)
        /\ \A k \in 1..Len(Document) :
             LET text == Document[k].text
             IN  (/\ Document[k].kind = "object"
                  /\ Document[k].shape = "text"
                  /\ ~IsFenced(text)
                  /\ JsonLoadsOk(text)) =>
                     /\ JsonLoadsOk(StripFences(text))
                     /\ JsonLoads(StripFences(text)) = JsonLoads(text)


\* C28 (termination, bounded wait): if the uploaded file leaves
\* STATE_PROCESSING and the job reports a terminal state, the request ends
\* with a result list or an error; and the request ends whatever the
\* backend answers, also when it never leaves a non-terminal state.
C28_WaitIsBounded ==
    /\ (<>(file_state = "STATE_ACTIVE") /\ <>(job_state \in TerminalStates))
            => <>(pc = "done" /\ response # NoResponse)
    /\ <>(pc = "done")


====
